---- MODULE Spec2Model ----
(***************************************************************************)
(* Model of iprPy.database.library.Library: a file-based record store      *)
(* (<root>/<style>/<name>.json with an optional <name>.tar.gz beside it),   *)
(* its query operations (get_records, get_records_df, get_record), the     *)
(* archive accessor (get_tar) and the operations the Library style refuses. *)
(*                                                                         *)
(* The store is changed only by external tooling (AddRecord, RemoveRecord,  *)
(* AddTar, RemoveTar).  Every Library method is one synchronous call: the   *)
(* caller is idle, makes a call (the call and its outcome are recorded in   *)
(* call and res) and takes the outcome (Return) before doing anything else. *)
(***************************************************************************)
EXTENDS Integers, Sequences, FiniteSets

VARIABLES
    listing,   \* [style -> sequence of [name, content]]: the *.json files of
               \* each style directory, in directory-listing order
    tars,      \* set of <<style, name>>: the <name>.tar.gz files present
    call,      \* the call in progress (op = "none" when the caller is idle)
    res,       \* the outcome of the call in progress
    settings,  \* the .iprPy settings file: the database and run_directory
               \* entries under 'iprPy-defined-parameters', in file order
    sout       \* the last call of a settings function and its outcome

libvars == <<listing, tars, call, res>>

setvars == <<settings, sout>>

vars == <<listing, tars, call, res, settings, sout>>

---------------------------------------------------------------------------
(* Bounds of the model and the small universes inputs are drawn from.      *)

\* Most files (json records plus tar archives) the store holds at a time.
MaxFiles == 2

\* Record names (file stems) used by the external tooling and by callers.
Names == {"X", "Y"}

\* A style name no record class is registered for.
UnknownStyle == "bogus"

\* record_styles.keys(): the recognized record styles, in registration order.
RecordStyles == <<"s1", "s2">>

Range(q) == {q[i] : i \in DOMAIN q}

Styles == Range(RecordStyles)

\* pandas' missing-value marker for a cell whose row lacks the column.
NaN == "NaN"

\* What a record file can hold.  "result" is a calculation result: it is
\* nested and is not part of the summary view.
Contents ==
    { [category |-> "a"],
      [category |-> "b", extra |-> "e", result |-> "r"] }

FullOnlyFields == {"result"}
NestedFields == {"result"}

---------------------------------------------------------------------------
(* Python argument values: None, a single str, or a list of str.           *)

NoneArg == [kind |-> "none", s |-> "", l |-> <<>>]
Str(x) == [kind |-> "str", s |-> x, l |-> <<>>]
List(q) == [kind |-> "list", s |-> "", l |-> q]

\* iprPy.tools.aslist: a str becomes a one-element list, a list stays.
AsList(a) == IF a.kind = "str" THEN <<a.s>> ELSE a.l

\* No record reference (record=None), and a reference to a Record object.
NoRecord == [given |-> FALSE, style |-> "", name |-> ""]
RecordRef(st, n) == [given |-> TRUE, style |-> st, name |-> n]

---------------------------------------------------------------------------
(* The Record Loader and the records' dictionary views.                    *)

Restrict(f, S) == [k \in (DOMAIN f) \cap S |-> f[k]]

\* load_record(style, name, file): the typed record built from a file.
load_record(st, n, c) == [style |-> st, name |-> n, content |-> c]

\* Record.todict(full, flat): the summary view leaves out the full-only
\* fields, the flat view leaves out the nested ones.
todict(r, full, flat) ==
    Restrict(r.content,
             {f \in DOMAIN r.content :
                 /\ (full \/ f \notin FullOnlyFields)
                 /\ (~flat \/ f \notin NestedFields)})

---------------------------------------------------------------------------
(* Filesystem accesses a call makes, in order.                             *)

IoGlob(st) == <<"glob", st, "*">>
IoIsFile(st, n) == <<"is_file", st, n>>
IoLoad(st, n) == <<"load", st, n>>
IoOpenTar(st, n) == <<"open", st, n>>

\* The *.json entries of <root>/<style>; a directory that does not exist
\* lists nothing.
Dir(lst, st) == IF st \in DOMAIN lst THEN lst[st] ELSE <<>>

IsFile(lst, st, n) == \E i \in DOMAIN Dir(lst, st) : Dir(lst, st)[i].name = n

FileContent(lst, st, n) ==
    LET d == Dir(lst, st)
    IN d[CHOOSE i \in DOMAIN d : d[i].name = n].content

---------------------------------------------------------------------------
(* Outcomes of a call.                                                     *)

EmptyTable == [cols |-> {}, rows |-> <<>>]

NoResult ==
    [kind |-> "none", exc |-> "", msg |-> "", arg |-> "",
     records |-> <<>>, table |-> EmptyTable, io |-> <<>>]

Raise(exc, msg, arg, io) ==
    [NoResult EXCEPT !.kind = "raise", !.exc = exc, !.msg = msg,
                     !.arg = arg, !.io = io]

ReturnRecords(recs, io) ==
    [NoResult EXCEPT !.kind = "records", !.records = recs, !.io = io]

ReturnRecordsDf(recs, df, io) ==
    [NoResult EXCEPT !.kind = "records_df", !.records = recs,
                     !.table = df, !.io = io]

ReturnDf(df, io) ==
    [NoResult EXCEPT !.kind = "df", !.table = df, !.io = io]

ReturnRecord(r, io) ==
    [NoResult EXCEPT !.kind = "record", !.records = <<r>>, !.io = io]

ReturnTar(kind, r, io) ==
    [NoResult EXCEPT !.kind = kind, !.records = <<r>>, !.io = io]

MsgUnknownStyle == "unknown record style"
MsgQuery == "query not supported by this style"
MsgCannotFind == "Cannot find matching record"
MsgMultiple == "Multiple matching records found"
MsgCompeting == "kwargs style and name cannot be given with kwarg record"
MsgNotAllowed == "not allowed for Library style"
MsgNoSuchFile == "No such file or directory"

---------------------------------------------------------------------------
(* get_records / get_records_df: style defaulting and validation.          *)

\* Lines 64-67: the styles to search.
StyleList(style) ==
    IF style.kind = "none" THEN RecordStyles ELSE AsList(style)

\* A style check that looks at the first style given only.
UnknownStylesFirstOnly(style) ==
    IF style.kind = "none" \/ AsList(style) = <<>>
        THEN <<>>
        ELSE SelectSeq(<<Head(AsList(style))>>, LAMBDA s : s \notin Styles)

\* Lines 68-69: the given styles that fail the assert, in order.
UnknownStyles(style) ==
    IF style.kind = "none"
        THEN <<>>
        ELSE SelectSeq(AsList(style), LAMBDA s : s \notin Styles)

---------------------------------------------------------------------------
(* The scan: candidate files of each style, loaded in enumeration order.   *)

\* Lines 81-87: every *.json of the style directory, in listing order.
ScanGlob(lst, st) ==
    LET d == Dir(lst, st)
    IN [recs |-> [i \in 1..Len(d) |-> load_record(st, d[i].name, d[i].content)],
        io |-> <<IoGlob(st)>> \o [i \in 1..Len(d) |-> IoLoad(st, d[i].name)]]

RECURSIVE ScanNames(_, _, _)
\* Lines 90-97: the given names, in the order given; a name without a file
\* is skipped.
ScanNames(lst, st, names) ==
    IF names = <<>>
        THEN [recs |-> <<>>, io |-> <<>>]
        ELSE LET n == Head(names)
                 rest == ScanNames(lst, st, Tail(names))
             IN IF IsFile(lst, st, n)
                    THEN [recs |-> <<load_record(st, n, FileContent(lst, st, n))>>
                                       \o rest.recs,
                          io |-> <<IoIsFile(st, n), IoLoad(st, n)>> \o rest.io]
                    ELSE [recs |-> rest.recs,
                          io |-> <<IoIsFile(st, n)>> \o rest.io]

RECURSIVE Scan(_, _, _)
\* Lines 77-97: the styles in the order given.
Scan(lst, styles, name) ==
    IF styles = <<>>
        THEN [recs |-> <<>>, io |-> <<>>]
        ELSE LET one == IF name.kind = "none"
                            THEN ScanGlob(lst, Head(styles))
                            ELSE ScanNames(lst, Head(styles), AsList(name))
                 rest == Scan(lst, Tail(styles), name)
             IN [recs |-> one.recs \o rest.recs, io |-> one.io \o rest.io]

---------------------------------------------------------------------------
(* The table: pd.DataFrame(rows), the isin filters, the index.             *)

\* pd.DataFrame(list of dicts): the columns are the union of the keys, a row
\* lacking a column holds NaN there, the index is 0..n-1.
DataFrame(dicts) ==
    LET cols == UNION {DOMAIN dicts[i] : i \in DOMAIN dicts}
    IN [cols |-> cols,
        rows |-> [i \in 1..Len(dicts) |->
                    [idx |-> i - 1,
                     vals |-> [c \in cols |->
                                 IF c \in DOMAIN dicts[i] THEN dicts[i][c]
                                                          ELSE NaN]]]]

\* df[df[key].isin(values)]: rows keep their index labels.
IsIn(df, key, values) ==
    [cols |-> df.cols,
     rows |-> SelectSeq(df.rows, LAMBDA r : r.vals[key] \in Range(values))]

RECURSIVE ApplyFilters(_, _)
\* Lines 103-104: one filter after the other; df[key] raises KeyError when
\* key is no column.
ApplyFilters(df, filters) ==
    IF filters = <<>>
        THEN [ok |-> TRUE, df |-> df, key |-> ""]
        ELSE LET f == Head(filters)
             IN IF f.key \notin df.cols
                    THEN [ok |-> FALSE, df |-> df, key |-> f.key]
                    ELSE ApplyFilters(IsIn(df, f.key, AsList(f.vals)),
                                      Tail(filters))

\* Filtering without looking at the length of the table first.
FilterTableUnguarded(df, filters) == ApplyFilters(df, filters)

\* Lines 102-104: the filters are applied only to a table that has rows.
FilterTable(df, filters) ==
    IF Len(df.rows) > 0
        THEN ApplyFilters(df, filters)
        ELSE [ok |-> TRUE, df |-> df, key |-> ""]

\* The records at the positions the filtered table's rows kept after they
\* were renumbered.
TakeRecordsByPosition(recs, df) ==
    [i \in 1..Len(df.rows) |-> recs[i]]

\* Line 107/109: records[df.index.tolist()].
TakeRecords(recs, df) ==
    [i \in 1..Len(df.rows) |-> recs[df.rows[i].idx + 1]]

\* df.reset_index(drop=True).
reset_index(df) ==
    [cols |-> df.cols,
     rows |-> [i \in 1..Len(df.rows) |->
                 [idx |-> i - 1, vals |-> df.rows[i].vals]]]

Rows(recs, full, flat) ==
    [i \in 1..Len(recs) |-> todict(recs[i], full, flat)]

---------------------------------------------------------------------------
(* The query operations.                                                   *)

get_records(lst, name, style, query, return_df, filters) ==
    IF UnknownStyles(style) # <<>>
        THEN Raise("AssertionError", MsgUnknownStyle,
                   Head(UnknownStyles(style)), <<>>)
    ELSE IF query.kind # "none"
        THEN Raise("ValueError", MsgQuery, "", <<>>)
    ELSE LET scan == Scan(lst, StyleList(style), name)
             df == DataFrame(Rows(scan.recs, FALSE, TRUE))
             flt == FilterTable(df, filters)
         IN IF ~flt.ok
                THEN Raise("KeyError", "", flt.key, scan.io)
            ELSE IF return_df
                THEN ReturnRecordsDf(TakeRecords(scan.recs, flt.df),
                                     reset_index(flt.df), scan.io)
                ELSE ReturnRecords(TakeRecords(scan.recs, flt.df), scan.io)

get_records_df(lst, name, style, query, full, flat, filters) ==
    IF UnknownStyles(style) # <<>>
        THEN Raise("AssertionError", MsgUnknownStyle,
                   Head(UnknownStyles(style)), <<>>)
    ELSE IF query.kind # "none"
        THEN Raise("ValueError", MsgQuery, "", <<>>)
    ELSE LET scan == Scan(lst, StyleList(style), name)
             df == DataFrame(Rows(scan.recs, full, flat))
             flt == FilterTable(df, filters)
         IN IF ~flt.ok
                THEN Raise("KeyError", "", flt.key, scan.io)
                ELSE ReturnDf(reset_index(flt.df), scan.io)

\* Line 199: no record matches.
CannotFindError(io) == Raise("ValueError", MsgCannotFind, "", io)

\* Line 201: several records match.
MultipleError(io) == Raise("ValueError", MsgMultiple, "", io)

\* A single-record lookup that settles for the first of several matches.
get_record_first(lst, name, style, query, filters) ==
    LET found == get_records(lst, name, style, NoneArg, FALSE, filters)
    IN IF found.kind = "raise"
           THEN found
       ELSE IF Len(found.records) >= 1
           THEN ReturnRecord(found.records[1], found.io)
           ELSE CannotFindError(found.io)

\* Lines 170-201.  The caller's query argument is not handed on: line 193
\* passes query=None.
get_record(lst, name, style, query, filters) ==
    LET found == get_records(lst, name, style, NoneArg, FALSE, filters)
    IN IF found.kind = "raise"
           THEN found
       ELSE IF Len(found.records) = 1
           THEN ReturnRecord(found.records[1], found.io)
       ELSE IF Len(found.records) = 0
           THEN CannotFindError(found.io)
           ELSE MultipleError(found.io)

---------------------------------------------------------------------------
(* The archive accessor.                                                   *)

\* A check that fires only when both style and name come with the record.
CompetingKwargsBoth(name, style) ==
    style.kind # "none" /\ name.kind # "none"

\* Line 238: style or name given together with a record.
CompetingKwargs(name, style) ==
    style.kind # "none" \/ name.kind # "none"

\* Taking the record reference as it is, without looking in the store.
TrustRecord(lst, record) ==
    ReturnRecord([style |-> record.style, name |-> record.name,
                  content |-> [category |-> "a"]], <<>>)

\* Line 243: the reference is looked up again by its own name and style.
VerifyRecord(lst, record) ==
    get_record(lst, Str(record.name), Str(record.style), NoneArg, <<>>)

\* A missing archive reported the way a missing record is.
OpenTarAsRecordError(ts, r, raw, io) ==
    IF <<r.style, r.name>> \in ts
        THEN ReturnTar(IF raw THEN "bytes" ELSE "tarfile", r,
                       io \o <<IoOpenTar(r.style, r.name)>>)
        ELSE CannotFindError(io \o <<IoOpenTar(r.style, r.name)>>)

\* Lines 246-253: open(tar_path, 'rb').read() or tarfile.open(tar_path); both
\* raise FileNotFoundError when <root>/<style>/<name>.tar.gz is missing.
OpenTar(ts, r, raw, io) ==
    IF <<r.style, r.name>> \in ts
        THEN ReturnTar(IF raw THEN "bytes" ELSE "tarfile", r,
                       io \o <<IoOpenTar(r.style, r.name)>>)
        ELSE Raise("FileNotFoundError", MsgNoSuchFile, "",
                   io \o <<IoOpenTar(r.style, r.name)>>)

\* Lines 233-253.
get_tar(lst, ts, record, name, style, raw) ==
    IF record.given /\ CompetingKwargs(name, style)
        THEN Raise("ValueError", MsgCompeting, "", <<>>)
        ELSE LET found == IF ~record.given
                              THEN get_record(lst, name, style, NoneArg, <<>>)
                              ELSE VerifyRecord(lst, record)
             IN IF found.kind = "raise"
                    THEN found
                    ELSE OpenTar(ts, found.records[1], raw, found.io)

---------------------------------------------------------------------------
(* The operations the Library style refuses.                               *)

UnsupportedOps ==
    {"build_refs", "clean_records", "destroy_records", "prepare", "runner"}

\* Lines 255-268: raise AttributeError('<op> not allowed for Library style').
NotAllowed(op) == Raise("AttributeError", MsgNotAllowed, op, <<>>)

---------------------------------------------------------------------------
(* The settings registry (.iprPy): named databases and run directories.    *)

\* Most params entries a database entry collects over repeated overwrites.
MaxParams == 1

\* load_settings on a missing file: 'iprPy-defined-parameters' holds nothing.
EmptySettings == [database |-> <<>>, run_directory |-> <<>>]

NoSettingsCall ==
    [op |-> "none", kind |-> "none", exc |-> "", name |-> "",
     confirmed |-> FALSE]

\* The outcome of a settings function: it returned (confirmed when it went
\* on to save a deletion), or it raised.
Returned(op, name, confirmed) ==
    [NoSettingsCall EXCEPT !.op = op, !.kind = "return", !.name = name,
                           !.confirmed = confirmed]

Raised(op, exc, name) ==
    [NoSettingsCall EXCEPT !.op = op, !.kind = "raise", !.exc = exc,
                           !.name = name]

\* What the user types at a screen_input prompt: text int() accepts, or any
\* other text.
Typed(n) == [kind |-> "int", n |-> n, s |-> ""]
TypedText(t) == [kind |-> "str", n |-> 0, s |-> t]

\* settings.find(key, yes={'name': name}): succeeds on exactly one match.
Matches(entries, name) == SelectSeq(entries, LAMBDA e : e.name = name)
Found1(entries, name) == Len(Matches(entries, name)) = 1

\* Python list indexing list[k]: negative k counts from the end.
InRange(q, k) == -Len(q) <= k /\ k < Len(q)
PyIndex(q, k) == IF k >= 0 THEN q[k + 1] ELSE q[Len(q) + k + 1]

\* Path(path).resolve().as_posix(): "." components are dropped.
Resolve(path) == IF path = "/run/." THEN "/run" ELSE path

\* Lines 92-139.
set_database(reg, name, style, host, kwargs, option) ==
    LET dbs == reg.database
        added == [name |-> name, style |-> style, host |-> host,
                  params |-> kwargs]
    IN IF ~Found1(dbs, name)
           THEN [reg |-> [reg EXCEPT !.database = Append(dbs, added)],
                 out |-> Returned("set_database", name, FALSE)]
       ELSE IF option \in {"yes", "y"}
           THEN [reg |-> [reg EXCEPT !.database =
                            [i \in DOMAIN dbs |->
                               IF dbs[i].name = name
                                   THEN [dbs[i] EXCEPT
                                           !.style = style, !.host = host,
                                           !.params = @ \o kwargs]
                                   ELSE dbs[i]]],
                 out |-> Returned("set_database", name, FALSE)]
       ELSE IF option \in {"no", "n"}
           THEN [reg |-> reg, out |-> Returned("set_database", name, FALSE)]
           ELSE [reg |-> reg, out |-> Raised("set_database", "ValueError", name)]

\* Lines 272-302.
set_run_directory(reg, name, path, option) ==
    LET dirs == reg.run_directory
        added == [name |-> name, path |-> Resolve(path)]
    IN IF ~Found1(dirs, name)
           THEN [reg |-> [reg EXCEPT !.run_directory = Append(dirs, added)],
                 out |-> Returned("set_run_directory", name, FALSE)]
       ELSE IF option \in {"yes", "y"}
           THEN [reg |-> [reg EXCEPT !.run_directory =
                            [i \in DOMAIN dirs |->
                               IF dirs[i].name = name
                                   THEN [dirs[i] EXCEPT !.path = Resolve(path)]
                                   ELSE dirs[i]]],
                 out |-> Returned("set_run_directory", name, FALSE)]
       ELSE IF option \in {"no", "n"}
           THEN [reg |-> reg,
                 out |-> Returned("set_run_directory", name, FALSE)]
           ELSE [reg |-> reg,
                 out |-> Raised("set_run_directory", "ValueError", name)]

\* Lines 183-192 / 346-355: the deletion once the user typed yes.  A single
\* entry is deleted whatever its name; otherwise the entries with another
\* name are kept, and new[key] raises KeyError when none is.
DeleteEntries(op, entries, selected) ==
    IF Len(entries) = 1
        THEN [entries |-> <<>>, out |-> Returned(op, selected, TRUE)]
        ELSE LET new == SelectSeq(entries, LAMBDA e : e.name # selected)
             IN IF new = <<>>
                    THEN [entries |-> entries,
                          out |-> Raised(op, "KeyError", selected)]
                    ELSE [entries |-> new,
                          out |-> Returned(op, selected, TRUE)]

\* Lines 180-193 / 343-356: the confirmation prompt.
ConfirmDelete(op, entries, selected, test) ==
    IF test = "yes"
        THEN DeleteEntries(op, entries, selected)
        ELSE [entries |-> entries, out |-> Returned(op, selected, FALSE)]

\* Lines 153-193 / 317-356: the body unset_database and unset_run_directory
\* share, on the entries of their own key.
UnsetEntries(op, entries, name, choice, test) ==
    IF name.kind = "none"
        THEN IF Len(entries) = 0
                 THEN [entries |-> entries, out |-> Returned(op, "", FALSE)]
             ELSE IF choice.kind # "int"
                 THEN ConfirmDelete(op, entries, choice.s, test)
             ELSE IF InRange(entries, choice.n - 1)
                 THEN ConfirmDelete(op, entries,
                                    PyIndex(entries, choice.n - 1).name, test)
                 ELSE [entries |-> entries,
                       out |-> Raised(op, "IndexError", "")]
        ELSE IF Found1(entries, name.s)
                 THEN ConfirmDelete(op, entries, name.s, test)
                 ELSE [entries |-> entries,
                       out |-> Raised(op, "ValueError", name.s)]

\* Lines 141-193.
unset_database(reg, name, choice, test) ==
    LET u == UnsetEntries("unset_database", reg.database, name, choice, test)
    IN [reg |-> [reg EXCEPT !.database = u.entries], out |-> u.out]

\* Lines 304-356.
unset_run_directory(reg, name, choice, test) ==
    LET u == UnsetEntries("unset_run_directory", reg.run_directory, name,
                          choice, test)
    IN [reg |-> [reg EXCEPT !.run_directory = u.entries], out |-> u.out]

---------------------------------------------------------------------------
(* State machine.                                                          *)

NoCall ==
    [op |-> "none", name |-> NoneArg, style |-> NoneArg, query |-> NoneArg,
     flag |-> FALSE, flat |-> FALSE, filters |-> <<>>, record |-> NoRecord]

Idle == call.op = "none"

FileCount(lst, ts) ==
    Len(lst["s1"]) + Len(lst["s2"]) + Cardinality(ts)

Init ==
    /\ listing = [st \in Styles |-> <<>>]
    /\ tars = {}
    /\ call = NoCall
    /\ res = NoResult
    /\ settings = EmptySettings
    /\ sout = NoSettingsCall

InsertAt(q, i, e) == SubSeq(q, 1, i - 1) \o <<e>> \o SubSeq(q, i, Len(q))

RemoveName(q, n) == SelectSeq(q, LAMBDA e : e.name # n)

\* External tooling writes <root>/<st>/<n>.json; where the new file shows up
\* in the directory listing is up to the filesystem.
AddRecord ==
    /\ Idle
    /\ FileCount(listing, tars) < MaxFiles
    /\ \E st \in Styles, n \in Names, c \in Contents :
        /\ ~IsFile(listing, st, n)
        /\ \E i \in 1..(Len(listing[st]) + 1) :
            listing' = [listing EXCEPT
                          ![st] = InsertAt(@, i, [name |-> n, content |-> c])]
    /\ UNCHANGED <<tars, call, res>>
    /\ UNCHANGED setvars

\* External tooling deletes <root>/<st>/<n>.json.
RemoveRecord ==
    /\ Idle
    /\ \E st \in Styles, n \in Names :
        /\ IsFile(listing, st, n)
        /\ listing' = [listing EXCEPT ![st] = RemoveName(@, n)]
    /\ UNCHANGED <<tars, call, res>>
    /\ UNCHANGED setvars

\* External tooling writes <root>/<st>/<n>.tar.gz.
AddTar ==
    /\ Idle
    /\ FileCount(listing, tars) < MaxFiles
    /\ \E st \in Styles, n \in Names :
        /\ <<st, n>> \notin tars
        /\ tars' = tars \cup {<<st, n>>}
    /\ UNCHANGED <<listing, call, res>>
    /\ UNCHANGED setvars

\* External tooling deletes <root>/<st>/<n>.tar.gz.
RemoveTar ==
    /\ Idle
    /\ \E t \in tars : tars' = tars \ {t}
    /\ UNCHANGED <<listing, call, res>>
    /\ UNCHANGED setvars

\* The arguments callers pass.
NameArgs ==
    {NoneArg, Str("X"), Str("Y"), List(<<"Y", "X">>), List(<<"X", "X">>)}

StyleArgs ==
    {NoneArg, Str("s1"), Str(UnknownStyle), List(<<"s2", "s1">>),
     List(<<"s1", UnknownStyle>>)}

QueryArgs == {NoneArg, Str("q")}

\* **kwargs, in keyword order: field name and accepted value(s).
FilterArgs ==
    { <<>>,
      <<[key |-> "category", vals |-> Str("a")]>>,
      <<[key |-> "category", vals |-> List(<<"a", "b">>)]>>,
      <<[key |-> "extra", vals |-> Str("e")]>>,
      <<[key |-> "category", vals |-> List(<<"a", "b">>)],
        [key |-> "extra", vals |-> Str("e")]>> }

\* Record references a caller may hold: a Record object obtained from the
\* store at some earlier time, whose file may have been removed since.
RecordArgs == {RecordRef(st, n) : st \in Styles, n \in Names}

\* Calls that pass a query are made with the other options at their
\* defaults.
Call_get_records ==
    /\ Idle
    /\ \E name \in NameArgs, style \in StyleArgs, query \in QueryArgs,
          return_df \in BOOLEAN, filters \in FilterArgs :
        /\ query.kind # "none" => (~return_df /\ filters = <<>>)
        /\ call' = [NoCall EXCEPT !.op = "get_records", !.name = name,
                                  !.style = style, !.query = query,
                                  !.flag = return_df, !.filters = filters]
        /\ res' = get_records(listing, name, style, query, return_df, filters)
    /\ UNCHANGED <<listing, tars>>
    /\ UNCHANGED setvars

\* full/flat are passed either both at their defaults (full, nested) or both
\* switched (summary, flat).
Call_get_records_df ==
    /\ Idle
    /\ \E name \in NameArgs, style \in StyleArgs, query \in QueryArgs,
          full \in BOOLEAN, filters \in FilterArgs :
        /\ query.kind # "none" => (full /\ filters = <<>>)
        /\ call' = [NoCall EXCEPT !.op = "get_records_df", !.name = name,
                                  !.style = style, !.query = query,
                                  !.flag = full, !.flat = ~full,
                                  !.filters = filters]
        /\ res' = get_records_df(listing, name, style, query, full, ~full,
                                 filters)
    /\ UNCHANGED <<listing, tars>>
    /\ UNCHANGED setvars

Call_get_record ==
    /\ Idle
    /\ \E name \in NameArgs, style \in StyleArgs, query \in QueryArgs,
          filters \in FilterArgs :
        /\ query.kind # "none" => filters = <<>>
        /\ call' = [NoCall EXCEPT !.op = "get_record", !.name = name,
                                  !.style = style, !.query = query,
                                  !.filters = filters]
        /\ res' = get_record(listing, name, style, query, filters)
    /\ UNCHANGED <<listing, tars>>
    /\ UNCHANGED setvars

Call_get_tar ==
    /\ Idle
    /\ \E record \in RecordArgs \cup {NoRecord},
          name \in {NoneArg, Str("X"), Str("Y")},
          style \in {NoneArg, Str("s1"), Str("s2"), Str(UnknownStyle)},
          raw \in BOOLEAN :
        /\ call' = [NoCall EXCEPT !.op = "get_tar", !.record = record,
                                  !.name = name, !.style = style,
                                  !.flag = raw]
        /\ res' = get_tar(listing, tars, record, name, style, raw)
    /\ UNCHANGED <<listing, tars>>
    /\ UNCHANGED setvars

\* Deleting the records of the style instead of refusing.
Call_destroy_records_deleting ==
    /\ Idle
    /\ \E record_style \in {NoneArg, Str("s1")} :
        /\ call' = [NoCall EXCEPT !.op = "destroy_records",
                                  !.style = record_style]
        /\ listing' = [st \in Styles |->
                         IF record_style.kind = "none" \/ record_style.s = st
                             THEN <<>> ELSE listing[st]]
    /\ res' = NotAllowed("destroy_records")
    /\ UNCHANGED tars
    /\ UNCHANGED setvars

Call_build_refs ==
    /\ Idle
    /\ \E lib_directory \in {NoneArg, Str("X")} :
        call' = [NoCall EXCEPT !.op = "build_refs", !.name = lib_directory]
    /\ res' = NotAllowed("build_refs")
    /\ UNCHANGED <<listing, tars>>
    /\ UNCHANGED setvars

Call_clean_records ==
    /\ Idle
    /\ \E record_style \in {NoneArg, Str("s1")} :
        call' = [NoCall EXCEPT !.op = "clean_records", !.style = record_style]
    /\ res' = NotAllowed("clean_records")
    /\ UNCHANGED <<listing, tars>>
    /\ UNCHANGED setvars

Call_destroy_records ==
    /\ Idle
    /\ \E record_style \in {NoneArg, Str("s1")} :
        call' = [NoCall EXCEPT !.op = "destroy_records",
                               !.style = record_style]
    /\ res' = NotAllowed("destroy_records")
    /\ UNCHANGED <<listing, tars>>
    /\ UNCHANGED setvars

Call_prepare ==
    /\ Idle
    /\ \E run_directory \in {Str("X"), Str("Y")} :
        call' = [NoCall EXCEPT !.op = "prepare", !.name = run_directory]
    /\ res' = NotAllowed("prepare")
    /\ UNCHANGED <<listing, tars>>
    /\ UNCHANGED setvars

Call_runner ==
    /\ Idle
    /\ \E run_directory \in {Str("X"), Str("Y")} :
        call' = [NoCall EXCEPT !.op = "runner", !.name = run_directory]
    /\ res' = NotAllowed("runner")
    /\ UNCHANGED <<listing, tars>>
    /\ UNCHANGED setvars

\* The caller takes the outcome of its call and is idle again.
Return ==
    /\ ~Idle
    /\ call' = NoCall
    /\ res' = NoResult
    /\ UNCHANGED <<listing, tars>>
    /\ UNCHANGED setvars

Next ==
    \/ AddRecord
    \/ RemoveRecord
    \/ AddTar
    \/ RemoveTar
    \/ Call_get_records
    \/ Call_get_records_df
    \/ Call_get_record
    \/ Call_get_tar
    \/ Call_build_refs
    \/ Call_clean_records
    \/ Call_destroy_records
    \/ Call_prepare
    \/ Call_runner
    \/ Return

Spec == Init /\ [][Next]_vars

---------------------------------------------------------------------------
(* The settings functions as a state machine of their own.                 *)

DatabaseNames == {"a", "b"}
RunDirectoryNames == {"r1", "r2"}

\* A name that is never registered.
OtherName == "zz"

HostArgs == {"h1", "h2"}
PathArgs == {"/run", "/run/.", "/alt"}
KwargsArgs == {<<>>, <<[key |-> "k", value |-> "v"]>>}
OptionArgs == {"yes", "no", "maybe"}
TestArgs == {"yes", "y"}

\* Answers to the 'Select a ...' prompt: a number or a name.
ChoiceArgs(names) ==
    {Typed(n) : n \in -1..3} \cup {TypedText(t) : t \in names \cup {OtherName}}

\* The overwrite prompt appears only for a name that is already defined.
Call_set_database ==
    /\ \E name \in DatabaseNames, host \in HostArgs, kwargs \in KwargsArgs,
          option \in OptionArgs :
        /\ ~Found1(settings.database, name) => option = "yes"
        /\ \A i \in DOMAIN settings.database :
             settings.database[i].name = name =>
                Len(settings.database[i].params) + Len(kwargs) <= MaxParams
        /\ LET r == set_database(settings, name, "local", host, kwargs, option)
           IN settings' = r.reg /\ sout' = r.out
    /\ UNCHANGED libvars

Call_set_run_directory ==
    /\ \E name \in RunDirectoryNames, path \in PathArgs, option \in OptionArgs :
        /\ ~Found1(settings.run_directory, name) => option = "yes"
        /\ LET r == set_run_directory(settings, name, path, option)
           IN settings' = r.reg /\ sout' = r.out
    /\ UNCHANGED libvars

\* The selection prompt appears only when no name is passed.
Call_unset_database ==
    /\ \E name \in {NoneArg} \cup {Str(n) : n \in DatabaseNames \cup {OtherName}},
          choice \in ChoiceArgs(DatabaseNames), test \in TestArgs :
        /\ name.kind # "none" => choice = Typed(1)
        /\ LET r == unset_database(settings, name, choice, test)
           IN settings' = r.reg /\ sout' = r.out
    /\ UNCHANGED libvars

Call_unset_run_directory ==
    /\ \E name \in {NoneArg} \cup
                     {Str(n) : n \in RunDirectoryNames \cup {OtherName}},
          choice \in ChoiceArgs(RunDirectoryNames), test \in TestArgs :
        /\ name.kind # "none" => choice = Typed(1)
        /\ LET r == unset_run_directory(settings, name, choice, test)
           IN settings' = r.reg /\ sout' = r.out
    /\ UNCHANGED libvars

NextSettings ==
    \/ Call_set_database
    \/ Call_set_run_directory
    \/ Call_unset_database
    \/ Call_unset_run_directory

SpecSettings == Init /\ [][NextSettings]_vars

---------------------------------------------------------------------------
(* Properties.                                                             *)

QueryOps == {"get_records", "get_records_df", "get_record"}

\* The style argument names at least one style that is not recognized.
HasUnknownStyle(style) ==
    style.kind # "none" /\ \E s \in Range(AsList(style)) : s \notin Styles

\* The summary, flat view get_records filters on.
Projection(r) == todict(r, FALSE, TRUE)

\* A record passes the filters: for every filter its projection has the
\* field and the value is one of the accepted ones.
Passes(r, filters) ==
    \A i \in DOMAIN filters :
        /\ filters[i].key \in DOMAIN Projection(r)
        /\ Projection(r)[filters[i].key] \in Range(AsList(filters[i].vals))

\* What get_records enumerates for the call's name and style, unfiltered.
Unfiltered == get_records(listing, call.name, call.style, NoneArg, FALSE, <<>>)

\* C1: get_records returns exactly the candidate records whose projected
\* value for every supplied filter field is one of the accepted values, in
\* the order of the unfiltered enumeration; a record whose projection lacks
\* a filter field is not retained.
C1_FilterExact ==
    (/\ call.op = "get_records"
     /\ ~HasUnknownStyle(call.style)
     /\ call.query.kind = "none")
    => /\ res.kind \in {"records", "records_df"}
       /\ res.records =
            SelectSeq(Unfiltered.records, LAMBDA r : Passes(r, call.filters))

\* What get_records returns for the arguments of a get_record call.
Found == get_records(listing, call.name, call.style, NoneArg, FALSE,
                     call.filters)

\* C2 as stated: get_record returns the record on one match, fails as not
\* found on none and as ambiguous on several, and the two failures are of
\* different error kinds.
C2_DistinctErrorKinds ==
    (call.op = "get_record" /\ Found.kind # "raise")
    => /\ Len(Found.records) = 1 =>
            res.kind = "record" /\ res.records = Found.records
       /\ Len(Found.records) = 0 =>
            /\ res.kind = "raise" /\ res.msg = MsgCannotFind
            /\ res.exc # MultipleError(<<>>).exc
       /\ Len(Found.records) > 1 =>
            /\ res.kind = "raise" /\ res.msg = MsgMultiple
            /\ res.exc # CannotFindError(<<>>).exc

\* C2 as amended: get_record returns the record on one match and raises
\* ValueError otherwise, with the message "Cannot find matching record" on
\* no match and "Multiple matching records found" on several: one error
\* kind, two messages.  An error of get_records is passed on unchanged.
C2_ThreeOutcomes ==
    call.op = "get_record"
    => /\ Found.kind = "raise" => res = Found
       /\ (Found.kind # "raise" /\ Len(Found.records) = 1) =>
            res.kind = "record" /\ res.records = Found.records
       /\ (Found.kind # "raise" /\ Len(Found.records) = 0) =>
            /\ res.kind = "raise" /\ res.exc = "ValueError"
            /\ res.msg = MsgCannotFind
       /\ (Found.kind # "raise" /\ Len(Found.records) > 1) =>
            /\ res.kind = "raise" /\ res.exc = "ValueError"
            /\ res.msg = MsgMultiple
       /\ MsgCannotFind # MsgMultiple

\* A get_record call that several records match.
C2_Witness ==
    /\ call.op = "get_record"
    /\ Found.kind # "raise"
    /\ Len(Found.records) > 1
    /\ res.msg = MsgMultiple

\* C3: no query operation called with a query ever returns a record or a
\* table.
C3_QueryNeverReturns ==
    (call.op \in QueryOps /\ call.query.kind # "none")
    => res.kind = "raise"

\* C4: get_records and get_records_df given a style that is not recognized,
\* alone or among recognized ones, fail with the style assertion before any
\* directory is listed and any file is probed or loaded.
C4_UnknownStyleFailsBeforeIO ==
    (call.op \in {"get_records", "get_records_df"}
        /\ HasUnknownStyle(call.style))
    => /\ res.kind = "raise"
       /\ res.exc = "AssertionError"
       /\ res.msg = MsgUnknownStyle
       /\ res.arg \notin Styles
       /\ res.io = <<>>

\* An unrecognized style after a recognized one whose directory has a file
\* the call would have matched.
C4_Witness ==
    /\ call.op = "get_records"
    /\ call.style = List(<<"s1", UnknownStyle>>)
    /\ call.name = Str("X")
    /\ IsFile(listing, "s1", "X")
    /\ res.exc = "AssertionError"

\* C5: get_tar given a record together with a name or a style fails with
\* the competing-kwargs ValueError, without resolving the record and without
\* opening a file.
C5_CompetingKwargsRejected ==
    (/\ call.op = "get_tar"
     /\ call.record.given
     /\ (call.name.kind # "none" \/ call.style.kind # "none"))
    => res = Raise("ValueError", MsgCompeting, "", <<>>)

\* The record and its archive both exist, and only a name comes with the
\* record.
C5_Witness ==
    /\ call.op = "get_tar"
    /\ call.record.given
    /\ call.name.kind # "none"
    /\ call.style.kind = "none"
    /\ IsFile(listing, call.record.style, call.record.name)
    /\ <<call.record.style, call.record.name>> \in tars
    /\ res.msg = MsgCompeting

\* A get_tar call driven by a record reference alone.
TarByRecord ==
    /\ call.op = "get_tar"
    /\ call.record.given
    /\ call.name.kind = "none"
    /\ call.style.kind = "none"

\* C6: get_tar(record=R) returns archive content only if R's record file
\* exists at the time of the call; if the file is gone the call fails with
\* the record-not-found error, also when R's archive is still there.
C6_StaleRecordRejected ==
    TarByRecord
    => /\ res.kind \in {"bytes", "tarfile"} =>
            IsFile(listing, call.record.style, call.record.name)
       /\ ~IsFile(listing, call.record.style, call.record.name) =>
            res.kind = "raise" /\ res.exc = "ValueError"
                /\ res.msg = MsgCannotFind

\* The record file of R is gone, its archive is still in the store.
C6_Witness ==
    /\ TarByRecord
    /\ ~IsFile(listing, call.record.style, call.record.name)
    /\ <<call.record.style, call.record.name>> \in tars
    /\ res.msg = MsgCannotFind

\* The single record a get_tar call resolves, if it resolves one.
Resolved ==
    IF call.record.given
        THEN get_record(listing, Str(call.record.name),
                        Str(call.record.style), NoneArg, <<>>)
        ELSE get_record(listing, call.name, call.style, NoneArg, <<>>)

\* C7: when get_tar resolves exactly one record and that record has no
\* archive file, the call fails, raw or not, with an error of another kind
\* than the record-not-found error; it returns neither content nor a handle.
C7_MissingArchiveDistinctError ==
    (/\ call.op = "get_tar"
     /\ ~(call.record.given /\
            (call.name.kind # "none" \/ call.style.kind # "none"))
     /\ Resolved.kind = "record"
     /\ <<Resolved.records[1].style, Resolved.records[1].name>> \notin tars)
    => /\ res.kind = "raise"
       /\ res.exc = "FileNotFoundError"
       /\ res.exc # CannotFindError(<<>>).exc

\* The record exists, its archive does not, and a handle was asked for.
C7_Witness ==
    /\ call.op = "get_tar"
    /\ ~call.record.given
    /\ call.name = Str("X")
    /\ call.style = Str("s1")
    /\ ~call.flag
    /\ IsFile(listing, "s1", "X")
    /\ <<"s1", "X">> \notin tars
    /\ res.kind = "raise"

\* C8: each of build_refs, clean_records, destroy_records, prepare and
\* runner fails with an AttributeError naming the operation, touches no file
\* and leaves the store as it was.
C8_UnsupportedLeaveStore ==
    [][(call.op = "none" /\ call'.op \in UnsupportedOps)
        => /\ res' = Raise("AttributeError", MsgNotAllowed, call'.op, <<>>)
           /\ listing' = listing
           /\ tars' = tars]_vars

\* destroy_records refused on a store that holds a record and an archive.
C8_Witness ==
    /\ call.op = "destroy_records"
    /\ res.exc = "AttributeError"
    /\ listing["s1"] # <<>>
    /\ tars # {}

\* No file is a candidate of the call: nothing is listed for the selected
\* styles, or none of the given names has a file in any of them.
NoCandidates ==
    \A st \in Range(StyleList(call.style)) :
        IF call.name.kind = "none"
            THEN Dir(listing, st) = <<>>
            ELSE \A n \in Range(AsList(call.name)) : ~IsFile(listing, st, n)

\* C9: when no candidate record is loaded, get_records returns an empty
\* list and get_records_df a table without rows, whatever filters are
\* given; neither raises.
C9_EmptyResultNoRaise ==
    (/\ call.op \in {"get_records", "get_records_df"}
     /\ ~HasUnknownStyle(call.style)
     /\ call.query.kind = "none"
     /\ NoCandidates)
    => /\ res.kind \in {"records", "records_df", "df"}
       /\ res.records = <<>>
       /\ res.table.rows = <<>>

\* A filtered query by a name that has no file, on a store that is not
\* empty.
C9_Witness ==
    /\ call.op = "get_records_df"
    /\ call.name = Str("Y")
    /\ call.style.kind = "none"
    /\ call.filters # <<>>
    /\ listing["s1"] # <<>>
    /\ NoCandidates
    /\ res.kind = "df"

RECURSIVE IsSubSeq(_, _)
\* a is b with some elements left out.
IsSubSeq(a, b) ==
    IF a = <<>> THEN TRUE
    ELSE IF b = <<>> THEN FALSE
    ELSE IF Head(a) = Head(b) THEN IsSubSeq(Tail(a), Tail(b))
    ELSE IsSubSeq(a, Tail(b))

\* The files one style contributes: the directory listing, or the given
\* names that have a file, in the order given.
EnumerationOf(st) ==
    IF call.name.kind = "none"
        THEN [i \in DOMAIN Dir(listing, st) |-> <<st, Dir(listing, st)[i].name>>]
        ELSE LET given == AsList(call.name)
                 hits == SelectSeq(given, LAMBDA n : IsFile(listing, st, n))
             IN [i \in DOMAIN hits |-> <<st, hits[i]>>]

RECURSIVE EnumerationFrom(_)
EnumerationFrom(styles) ==
    IF styles = <<>> THEN <<>>
    ELSE EnumerationOf(Head(styles)) \o EnumerationFrom(Tail(styles))

\* C10: get_records with return_df returns a list and a table of the same
\* length n, the table's index is 0..n-1, row i is the projection of record
\* i, and both are in enumeration order: styles in the order given, then
\* listing order or the order of the given names.
C10_ListAndTableAligned ==
    (call.op = "get_records" /\ res.kind = "records_df")
    => /\ Len(res.records) = Len(res.table.rows)
       /\ \A i \in DOMAIN res.table.rows :
            /\ res.table.rows[i].idx = i - 1
            /\ DOMAIN Projection(res.records[i]) \subseteq res.table.cols
            /\ \A c \in res.table.cols :
                 res.table.rows[i].vals[c] =
                    IF c \in DOMAIN Projection(res.records[i])
                        THEN Projection(res.records[i])[c]
                        ELSE NaN
       /\ IsSubSeq([i \in DOMAIN res.records |->
                        <<res.records[i].style, res.records[i].name>>],
                   EnumerationFrom(StyleList(call.style)))
       /\ \A i \in DOMAIN res.records :
            FileContent(listing, res.records[i].style, res.records[i].name)
                = res.records[i].content

\* Two filters, one after the other, keep the second of two candidates.
C10_Witness ==
    /\ call.op = "get_records"
    /\ res.kind = "records_df"
    /\ Len(call.filters) > 1
    /\ Len(Unfiltered.records) > 1
    /\ Len(res.records) = 1
    /\ res.records[1] = Unfiltered.records[2]

\* C11: the result of get_records holds each stored record at most once (no
\* two entries share style and name), whatever names and styles are given;
\* so get_record by names and a single style is never ambiguous when only
\* one file matches.
C11_NoDuplicateRecords ==
    /\ call.op = "get_records" /\ res.kind \in {"records", "records_df"} =>
          \A i, j \in DOMAIN res.records :
              (res.records[i].style = res.records[j].style
                  /\ res.records[i].name = res.records[j].name) => i = j
    /\ (/\ call.op = "get_record"
        /\ call.name.kind = "list"
        /\ call.style.kind = "str"
        /\ call.style.s \in Styles
        /\ Cardinality({n \in Range(AsList(call.name)) :
                            /\ IsFile(listing, call.style.s, n)
                            /\ Passes(load_record(call.style.s, n,
                                   FileContent(listing, call.style.s, n)),
                                      call.filters)}) = 1)
       => ~(res.kind = "raise" /\ res.msg = MsgMultiple)

\* C12: a confirmed unset_database (unset_run_directory) removes exactly
\* the entries whose name is the selected name and leaves every other entry
\* as it was; with a selected name that matches no entry the registry is
\* unchanged, also when it holds a single entry.
C12_UnsetRemovesOnlySelected ==
    [][/\ (sout'.op = "unset_database" /\ sout'.confirmed) =>
            /\ settings'.database =
                 SelectSeq(settings.database, LAMBDA e : e.name # sout'.name)
            /\ settings'.run_directory = settings.run_directory
       /\ (sout'.op = "unset_run_directory" /\ sout'.confirmed) =>
            /\ settings'.run_directory =
                 SelectSeq(settings.run_directory,
                           LAMBDA e : e.name # sout'.name)
            /\ settings'.database = settings.database]_vars

====
